---- MODULE Spec2Model ----
(***************************************************************************)
(* The data-orchestration controller of the ScrapePilot dashboard          *)
(* (DashboardPage): the React state of the component, the requests it has  *)
(* in flight, its two timers, and one action per user event, timer         *)
(* callback and settled request.                                           *)
(*                                                                         *)
(* A step is one task of the browser's event loop: an event handler or a   *)
(* promise continuation with every state update it batches, the render     *)
(* that follows and the effects that render runs.                          *)
(***************************************************************************)
EXTENDS Integers, Sequences, FiniteSets, TLC

\* ---------------------------------------------------------------- bounds
\* User events and polling ticks after mount.
MaxEvents == 1
\* Fetches of a bulk refresh that are followed after Promise.all has rejected.
MaxStragglers == 1
\* User events after mount when the query state is followed on its own.
MaxQueryEvents == 3
\* Entries of the domain counts, and items of the item page, given to
\* uniqueDomains.
MaxListLen == 2
\* User events and polling ticks when the timers and the teardown are followed
\* on their own.
MaxTimerEvents == 3
\* User events when a run trigger is followed together with the query state.
MaxRunEvents == 2

\* ----------------------------------------------------- values and inputs
SortColumns == {"timestamp", "points", "comments", "title"}
SortOrders == {"asc", "desc"}
\* Column headers the user clicks: the one active after mount and another.
SortClicks == {"timestamp", "points"}
\* Texts of the search box, as sequences of characters.
SearchTexts == {<< >>, <<" ", "a">>, <<"a">>}
\* Options of the source filter: the sentinel and one domain.
SourceOptions == {"all", "a.com"}
\* Values the interval input can take.
IntervalInputs == {15, 30}
\* interval_minutes the server may answer with.
ServerIntervals == {15, 30}
CoreFetches == {"/analytics/summary", "/analytics/trending", "/analytics/domains",
                "/scrape/status", "/history?limit=18", "/schedule"}

ItemLimit == 40
ItemOffset == 0
DefaultInterval == 15

\* Responses with a non-success status: the status and the body text.
FailedResponses == {[status |-> 500, text |-> ""], [status |-> 404, text |-> "Not Found"]}

\* null of the error slot.
Null == << >>

\* A message that ignores the body of the response.
ApiFetchErrorGeneric(resp) == <<"Request failed: ", resp.status>>

\* The message of the Error apiFetch throws for a response that is not ok.
ApiFetchError(resp) ==
    IF resp.text # "" THEN <<resp.text>> ELSE <<"Request failed: ", resp.status>>

\* null of status, schedule and items is the value with seq 0; every fetched
\* value carries the sequence number of the request that fetched it.
NullStatus == [seq |-> 0, is_running |-> FALSE]
NullSchedule == [seq |-> 0, interval_minutes |-> 0]
NoParams == [sort_by |-> "", sort_order |-> "", limit |-> 0, offset |-> 0,
             search |-> {}, source |-> {}]
NullItems == [seq |-> 0, q |-> NoParams]

\* String.prototype.trim on a sequence of characters.
RECURSIVE TrimStart(_)
TrimStart(s) == IF s # << >> /\ Head(s) = " " THEN TrimStart(Tail(s)) ELSE s
RECURSIVE TrimEnd(_)
TrimEnd(s) ==
    IF s # << >> /\ s[Len(s)] = " " THEN TrimEnd(SubSeq(s, 1, Len(s) - 1)) ELSE s
Trim(s) == TrimEnd(TrimStart(s))

\* A loadItems that sends the debounced term as it stands.
ItemParamsRaw(by, order, term, source) ==
    [sort_by |-> by, sort_order |-> order, limit |-> ItemLimit, offset |-> ItemOffset,
     search |-> IF term # << >> THEN {term} ELSE {},
     source |-> IF source # "all" THEN {source} ELSE {}]

\* The URLSearchParams loadItems builds; an optional parameter is a set of at
\* most one value.
ItemParams(by, order, term, source) ==
    [sort_by |-> by, sort_order |-> order, limit |-> ItemLimit, offset |-> ItemOffset,
     search |-> IF Trim(term) # << >> THEN {Trim(term)} ELSE {},
     source |-> IF source # "all" THEN {source} ELSE {}]

VARIABLES
    \* fetched state
    summary, trending, domains, status, schedule, history, items,
    \* loading flags and the error slot
    bootLoading, tableLoading, isRunning, scheduleSaving, error,
    \* query state and the interval input
    searchInput, search, sourceFilter, sortBy, sortOrder, intervalMinutes,
    \* the event loop: user events and polling ticks left, requests in flight,
    \* the two user operations' positions, the pending debounce timers (each
    \* the raw input its callback captured)
    budget, coreReqs, lateFetches, itemReqs, pollReqs, runOp, schedOp, debounce,
    \* history: the number of item queries issued, the number of requests
    \* issued that answer with status or schedule (bulk refreshes, polls,
    \* POST /schedule), whether an item query has failed, and the name of
    \* the last step taken, the edits of the search box since a debounce
    \* timer last fired
    itemSeq, coreSeq, itemFailed, last, edits,
    \* history: the number of status polls that have failed, whether a
    \* refresh started by the last runScrape has failed, and whether the user
    \* has edited the interval input
    pollFailures, runFailed, intervalEdited,
    \* whether the view is mounted, and whether the polling interval is set
    mounted, ticker,
    \* the argument and the result of a function applied on its own
    fnIn, fnOut

coreVars == <<summary, trending, domains, status, schedule, history>>
flagVars == <<bootLoading, tableLoading, isRunning, scheduleSaving>>
queryVars == <<searchInput, search, sourceFilter, sortBy, sortOrder>>
loopVars == <<budget, coreReqs, lateFetches, itemReqs, pollReqs, runOp, schedOp, debounce>>
histVars == <<itemSeq, coreSeq, itemFailed>>
pureVars == <<fnIn, fnOut>>
timerVars == <<mounted, ticker>>
vars ==
    <<coreVars, items, flagVars, error, queryVars, intervalMinutes, loopVars, histVars, last,
      edits, pollFailures, runFailed, intervalEdited, pureVars, timerVars>>

\* The parameters of the item query of the query state on screen.
CurrentParams == ItemParams(sortBy, sortOrder, search, sourceFilter)

\* runScrape and updateSchedule: where the call stands, what its closure
\* captured when the button was clicked, and what it still awaits.
IdleRun == [phase |-> "idle", q |-> NoParams, wait |-> {}]
IdleSched == [phase |-> "idle", seq |-> 0, body |-> 0]

\* A bulk refresh whose Promise.all is pending, and the caller that awaits it.
CoreReq(seq, owner) == [seq |-> seq, owner |-> owner]
ItemReq(seq, q, owner) == [seq |-> seq, q |-> q, owner |-> owner]

\* No function is being applied on its own.
NoCall == [fn |-> "none"]

\* State after the first render and its effects: loadCoreData and loadItems
\* have been called, the debounce timer and the polling interval are set;
\* `events` user events and polling ticks are to come, and `call` is the
\* function to apply on its own.
Mounted(events, call) ==
    /\ summary = 0 /\ trending = 0 /\ domains = 0 /\ history = 0
    /\ status = NullStatus /\ schedule = NullSchedule /\ items = NullItems
    /\ bootLoading = TRUE /\ tableLoading = TRUE
    /\ isRunning = FALSE /\ scheduleSaving = FALSE
    /\ error = Null
    /\ searchInput = << >> /\ search = << >> /\ sourceFilter = "all"
    /\ sortBy = "timestamp" /\ sortOrder = "desc"
    /\ intervalMinutes = DefaultInterval
    /\ budget = events
    /\ coreReqs = {CoreReq(1, "mount")}
    /\ lateFetches = {}
    /\ itemReqs = {ItemReq(1, ItemParams("timestamp", "desc", << >>, "all"), "effect")}
    /\ pollReqs = {}
    /\ runOp = IdleRun /\ schedOp = IdleSched
    /\ debounce = {<< >>}
    /\ itemSeq = 1 /\ coreSeq = 1 /\ itemFailed = FALSE
    /\ last = "mount" /\ edits = 0 /\ pollFailures = 0 /\ runFailed = FALSE
    /\ intervalEdited = FALSE
    /\ mounted = TRUE /\ ticker = TRUE
    /\ fnIn = call /\ fnOut = NoCall

Init == Mounted(MaxEvents, NoCall)

\* ------------------------------------------------------------ loadCoreData
\* loadCoreData without its setIntervalMinutes call.
LoadCoreThenNoSeed(seq, st, sc) ==
    /\ summary' = seq
    /\ trending' = seq
    /\ domains' = seq
    /\ status' = st
    /\ history' = seq
    /\ schedule' = sc
    /\ intervalMinutes' = intervalMinutes
    /\ error' = Null

\* A then-branch without its setError(null).
LoadCoreThenKeepError(seq, st, sc) ==
    /\ summary' = seq
    /\ trending' = seq
    /\ domains' = seq
    /\ status' = st
    /\ history' = seq
    /\ schedule' = sc
    /\ intervalMinutes' = sc.interval_minutes
    /\ error' = error

\* A loadCoreData that seeds the interval input only while it holds its
\* initial value.
LoadCoreThenSeedOnce(seq, st, sc) ==
    /\ summary' = seq
    /\ trending' = seq
    /\ domains' = seq
    /\ status' = st
    /\ history' = seq
    /\ schedule' = sc
    /\ intervalMinutes' = (IF intervalMinutes = DefaultInterval
                           THEN sc.interval_minutes ELSE intervalMinutes)
    /\ error' = Null

\* All six fetches fulfilled: the then-branch of the try block.
LoadCoreThen(seq, st, sc) ==
    /\ summary' = seq
    /\ trending' = seq
    /\ domains' = seq
    /\ status' = st
    /\ history' = seq
    /\ schedule' = sc
    /\ intervalMinutes' = sc.interval_minutes
    /\ error' = Null

\* A catch block that also blanks the dashboard.
LoadCoreCatchBlank(message) ==
    /\ error' = message
    /\ summary' = 0
    /\ trending' = 0
    /\ domains' = 0
    /\ history' = 0
    /\ status' = NullStatus
    /\ schedule' = NullSchedule
    /\ intervalMinutes' = intervalMinutes

\* Promise.all rejected with the Error of the fetch that failed.
LoadCoreCatch(message) ==
    /\ error' = message
    /\ UNCHANGED <<coreVars, intervalMinutes>>

\* The flag cleared at the end of the try block instead of in finally.
LoadCoreFinallyOnSuccess == bootLoading' = (IF error' = Null THEN FALSE ELSE bootLoading)

LoadCoreFinally == bootLoading' = FALSE

\* ---------------------------------------------------------------- loadItems
\* Up to the await: the flag is raised and the request leaves.
LoadItemsStart(q, owner) ==
    /\ tableLoading' = TRUE
    /\ itemReqs' = itemReqs \cup {ItemReq(itemSeq + 1, q, owner)}
    /\ itemSeq' = itemSeq + 1

\* A then-branch without its setError(null).
LoadItemsThenKeepError(r) ==
    /\ items' = [seq |-> r.seq, q |-> r.q]
    /\ error' = error

\* The fetch resolved: the rest of the try block.
LoadItemsThen(r) ==
    /\ items' = [seq |-> r.seq, q |-> r.q]
    /\ error' = Null

\* A catch block that also drops the page on screen.
LoadItemsCatchClear(message) ==
    /\ error' = message
    /\ items' = NullItems

LoadItemsCatch(message) ==
    /\ error' = message
    /\ UNCHANGED items

\* A loadItems that clears the table-pending flag in its try block only.
LoadItemsFinallyOnSuccess == tableLoading' = (IF error' = Null THEN FALSE ELSE tableLoading)

LoadItemsFinally == tableLoading' = FALSE

\* ------------------------------------------------- runScrape, updateSchedule
\* A disabled attribute that ignores the reported run status.
RunDisabledLocal == isRunning

\* The Run Scrape button's disabled attribute.
RunDisabled == isRunning \/ status.is_running

\* A runScrape that goes on as soon as one of the two has completed.
RunJoinFirst(part) ==
    /\ isRunning' = FALSE
    /\ runOp' = IdleRun

\* Promise.all([loadCoreData(), loadItems()]) in runScrape: one of the two
\* has completed; when it was the last, the finally block runs.
RunJoin(part) ==
    IF runOp.wait = {part}
    THEN /\ isRunning' = FALSE
         /\ runOp' = IdleRun
    ELSE /\ isRunning' = isRunning
         /\ runOp' = [runOp EXCEPT !.wait = @ \ {part}]

\* What the caller of a completed loadCoreData does next.
AfterLoadCore(owner) ==
    CASE owner = "mount" -> UNCHANGED <<isRunning, scheduleSaving, runOp, schedOp>>
      [] owner = "run" -> RunJoin("core") /\ UNCHANGED <<scheduleSaving, schedOp>>
      [] owner = "sched" ->
            /\ scheduleSaving' = FALSE
            /\ schedOp' = IdleSched
            /\ UNCHANGED <<isRunning, runOp>>

\* What the caller of a completed loadItems does next.
AfterLoadItems(owner) ==
    CASE owner = "effect" -> UNCHANGED <<isRunning, scheduleSaving, runOp, schedOp>>
      [] owner = "run" -> RunJoin("items") /\ UNCHANGED <<scheduleSaving, schedOp>>

\* ------------------------------------------------------------- user events
\* A loadItems whose dependency list lacks sortOrder: a render that changes
\* nothing else keeps the callback, and the effect does not run.
QueryEffectNoOrder(by, order, term, source) ==
    IF by = sortBy /\ term = search /\ source = sourceFilter
    THEN UNCHANGED <<tableLoading, itemReqs, itemSeq>>
    ELSE LoadItemsStart(ItemParams(by, order, term, source), "effect")

\* The effect on [loadItems]: a render with a new query state calls the
\* loadItems of that render.
QueryEffect(by, order, term, source) ==
    LoadItemsStart(ItemParams(by, order, term, source), "effect")

\* One more user event or polling tick.
Event ==
    /\ budget >= 1
    /\ budget' = budget - 1

\* A user event: the view is on screen.
UserEvent == mounted /\ Event

\* A handleSort that keeps the order when the column changes.
SortAfterKeepOrder(column) ==
    IF sortBy = column
    THEN [by |-> sortBy, order |-> IF sortOrder = "desc" THEN "asc" ELSE "desc"]
    ELSE [by |-> column, order |-> sortOrder]

\* The sort column and order handleSort(column) leaves.
SortAfter(column) ==
    IF sortBy = column
    THEN [by |-> sortBy, order |-> IF sortOrder = "desc" THEN "asc" ELSE "desc"]
    ELSE [by |-> column, order |-> "desc"]

HandleSort(column) ==
    /\ UserEvent
    /\ sortBy' = SortAfter(column).by
    /\ sortOrder' = SortAfter(column).order
    /\ QueryEffect(SortAfter(column).by, SortAfter(column).order, search, sourceFilter)
    /\ UNCHANGED <<coreVars, items, bootLoading, isRunning, scheduleSaving, error,
                   searchInput, search, sourceFilter, intervalMinutes,
                   coreReqs, lateFetches, pollReqs, runOp, schedOp, debounce, coreSeq, itemFailed>>

\* The options of the source select: the sentinel, and the domains of the
\* domain counts and of the item page once either has been loaded.
SourceChoices == {"all"} \cup (IF domains # 0 \/ items.seq # 0 THEN {"a.com"} ELSE {})

SetSourceFilter(value) ==
    /\ value \in SourceChoices
    /\ value # sourceFilter
    /\ UserEvent
    /\ sourceFilter' = value
    /\ QueryEffect(sortBy, sortOrder, search, value)
    /\ UNCHANGED <<coreVars, items, bootLoading, isRunning, scheduleSaving, error,
                   searchInput, search, sortBy, sortOrder, intervalMinutes,
                   coreReqs, lateFetches, pollReqs, runOp, schedOp, debounce, coreSeq, itemFailed>>

\* A debounce effect that lets a pending timer run on instead of restarting it.
DebounceEffectFirst(value) == debounce' = (IF debounce = {} THEN {value} ELSE debounce)

\* The debounce effect re-run without the cleanup of the previous run.
DebounceEffectLeak(value) == debounce' = debounce \cup {value}

\* The debounce effect re-run for a new raw input: the cleanup of the previous
\* run clears its timer, then a timer is set whose callback holds `value`.
DebounceEffect(value) == debounce' = (debounce \ {searchInput}) \cup {value}

\* A keystroke in the search box.
SetSearchInput(value) ==
    /\ value # searchInput
    /\ UserEvent
    /\ searchInput' = value
    /\ DebounceEffect(value)
    /\ UNCHANGED <<coreVars, items, flagVars, error, search, sourceFilter, sortBy,
                   sortOrder, intervalMinutes, coreReqs, lateFetches, itemReqs,
                   pollReqs, runOp, schedOp, histVars>>

\* A debounce callback whose setSearch always causes a render with a new
\* loadItems.
DebounceFireAlways(term) ==
    /\ term \in debounce
    /\ debounce' = debounce \ {term}
    /\ search' = term
    /\ QueryEffect(sortBy, sortOrder, term, sourceFilter)
    /\ UNCHANGED <<coreVars, items, bootLoading, isRunning, scheduleSaving, error,
                   searchInput, sourceFilter, sortBy, sortOrder, intervalMinutes,
                   budget, coreReqs, lateFetches, pollReqs, runOp, schedOp, coreSeq, itemFailed>>

\* A debounce timer fires: setSearch(searchInput) with the raw input `term`
\* its callback holds; an unchanged term causes no render.
DebounceFire(term) ==
    /\ term \in debounce
    /\ debounce' = debounce \ {term}
    /\ search' = term
    /\ IF search # term
       THEN QueryEffect(sortBy, sortOrder, term, sourceFilter)
       ELSE UNCHANGED <<tableLoading, itemReqs, itemSeq>>
    /\ UNCHANGED <<coreVars, items, bootLoading, isRunning, scheduleSaving, error,
                   searchInput, sourceFilter, sortBy, sortOrder, intervalMinutes,
                   budget, coreReqs, lateFetches, pollReqs, runOp, schedOp, coreSeq, itemFailed>>

SetIntervalMinutes(value) ==
    /\ value # intervalMinutes
    /\ UserEvent
    /\ intervalMinutes' = value
    /\ UNCHANGED <<coreVars, items, flagVars, error, queryVars, coreReqs, lateFetches, itemReqs,
                   pollReqs, runOp, schedOp, debounce, histVars>>

\* ---------------------------------------------------------- item responses
\* A loadItems that also clears the initial-load flag.
ItemsOkClearsBoot(r) ==
    /\ r \in itemReqs
    /\ itemReqs' = itemReqs \ {r}
    /\ LoadItemsThen(r)
    /\ LoadItemsFinally
    /\ AfterLoadItems(r.owner)
    /\ bootLoading' = FALSE
    /\ UNCHANGED <<coreVars, queryVars, intervalMinutes,
                   budget, coreReqs, lateFetches, pollReqs, debounce, histVars>>

ItemsOk(r) ==
    /\ r \in itemReqs
    /\ itemReqs' = itemReqs \ {r}
    /\ LoadItemsThen(r)
    /\ LoadItemsFinally
    /\ AfterLoadItems(r.owner)
    /\ UNCHANGED <<coreVars, bootLoading, queryVars, intervalMinutes,
                   budget, coreReqs, lateFetches, pollReqs, debounce, histVars>>

ItemsFail(r, resp) ==
    /\ r \in itemReqs
    /\ itemReqs' = itemReqs \ {r}
    /\ LoadItemsCatch(ApiFetchError(resp))
    /\ LoadItemsFinally
    /\ AfterLoadItems(r.owner)
    /\ itemFailed' = TRUE
    /\ UNCHANGED <<coreVars, bootLoading, queryVars, intervalMinutes,
                   budget, coreReqs, lateFetches, pollReqs, debounce, itemSeq, coreSeq>>

\* ------------------------------------------------------ bulk refresh fetches
\* A loadCoreData joined with Promise.any: it goes on at the first fetch
\* fulfilled, with another still in flight.
CoreResolveEarly(r, running, minutes) ==
    /\ r \in coreReqs
    /\ coreReqs' = coreReqs \ {r}
    /\ lateFetches' = lateFetches \cup {[seq |-> r.seq, left |-> 1]}
    /\ LoadCoreThen(r.seq, [seq |-> r.seq, is_running |-> running],
                    [seq |-> r.seq, interval_minutes |-> minutes])
    /\ LoadCoreFinally
    /\ AfterLoadCore(r.owner)
    /\ UNCHANGED <<items, tableLoading, queryVars, budget, itemReqs,
                   pollReqs, debounce, histVars>>

\* Promise.all runs no code of the component while fetches are fulfilled one
\* by one; it resolves when the last of the six is fulfilled.
CoreResolve(r, running, minutes) ==
    /\ r \in coreReqs
    /\ coreReqs' = coreReqs \ {r}
    /\ LoadCoreThen(r.seq, [seq |-> r.seq, is_running |-> running],
                    [seq |-> r.seq, interval_minutes |-> minutes])
    /\ LoadCoreFinally
    /\ AfterLoadCore(r.owner)
    /\ UNCHANGED <<items, tableLoading, queryVars, budget, lateFetches, itemReqs,
                   pollReqs, debounce, histVars>>

\* The first fetch to fail rejects Promise.all at once; `left` of the other
\* five fetches have not settled yet.
CoreReject(r, resp, left) ==
    /\ r \in coreReqs
    /\ left \in 0 .. (Cardinality(CoreFetches) - 1)
    /\ coreReqs' = coreReqs \ {r}
    /\ lateFetches' = lateFetches \cup (IF left = 0 THEN {} ELSE {[seq |-> r.seq, left |-> left]})
    /\ LoadCoreCatch(ApiFetchError(resp))
    /\ LoadCoreFinally
    /\ AfterLoadCore(r.owner)
    /\ UNCHANGED <<items, tableLoading, queryVars, budget, itemReqs, pollReqs,
                   debounce, histVars>>

\* A response with a body of the declared type.
OkResponse == [status |-> 200, text |-> "{}"]

\* What a fetch that settles after its refresh has rejected can bring: a
\* body or a failure; nobody reads which.
LateResponses == {OkResponse} \cup {resp \in FailedResponses : resp.text = ""}

\* A loadCoreData that reports every failure of its fetches.
PromiseAllLateReport(resp) ==
    /\ error' = (IF resp \in FailedResponses THEN ApiFetchError(resp) ELSE error)
    /\ UNCHANGED <<coreVars, bootLoading, intervalMinutes>>

\* Promise.all has rejected: the settlement of another of its promises, with
\* the response `resp`, runs no code of loadCoreData.
PromiseAllLate(resp) == UNCHANGED <<coreVars, error, bootLoading, intervalMinutes>>

\* A fetch of a refresh that has already rejected settles, either way: nobody
\* reads the result.
CoreFetchLate(l, resp) ==
    /\ l \in lateFetches
    /\ lateFetches' = (lateFetches \ {l}) \cup
                      (IF l.left = 1 THEN {} ELSE {[l EXCEPT !.left = @ - 1]})
    /\ PromiseAllLate(resp)
    /\ UNCHANGED <<items, tableLoading, isRunning, scheduleSaving, queryVars,
                   budget, coreReqs, itemReqs, pollReqs, runOp, schedOp, debounce,
                   histVars>>

\* ------------------------------------------------------------------ polling
\* The interval callback issues a status fetch.
PollTick ==
    /\ ticker
    /\ Event
    /\ pollReqs' = pollReqs \cup {coreSeq + 1}
    /\ coreSeq' = coreSeq + 1
    /\ UNCHANGED <<coreVars, items, flagVars, error, queryVars, intervalMinutes,
                   coreReqs, lateFetches, itemReqs, runOp, schedOp, debounce, itemSeq, itemFailed>>

\* A polling callback that also clears the error slot when it succeeds.
PollThenClearError(p, running) ==
    /\ status' = [seq |-> p, is_running |-> running]
    /\ error' = Null
    /\ UNCHANGED <<summary, trending, domains, schedule, history>>

PollThen(p, running) ==
    /\ status' = [seq |-> p, is_running |-> running]
    /\ UNCHANGED <<summary, trending, domains, schedule, history, error>>

\* A catch block that reports the failure like the other operations do.
PollCatchReport(p) ==
    /\ error' = <<"Failed to poll status">>
    /\ UNCHANGED coreVars

\* The empty catch block of the interval callback.
PollCatch(p) == UNCHANGED <<coreVars, error>>

PollOk(p, running) ==
    /\ p \in pollReqs
    /\ pollReqs' = pollReqs \ {p}
    /\ PollThen(p, running)
    /\ UNCHANGED <<items, flagVars, queryVars, intervalMinutes,
                   budget, coreReqs, lateFetches, itemReqs, runOp, schedOp, debounce, histVars>>

PollFail(p) ==
    /\ p \in pollReqs
    /\ pollReqs' = pollReqs \ {p}
    /\ PollCatch(p)
    /\ UNCHANGED <<items, flagVars, queryVars, intervalMinutes,
                   budget, coreReqs, lateFetches, itemReqs, runOp, schedOp, debounce, histVars>>

\* ------------------------------------------------------------------ teardown
\* The cleanup of the debounce effect: clearTimeout of the timer its last run
\* set.
DebounceCleanup == debounce' = debounce \ {searchInput}

\* A polling effect that returns no cleanup.
PollingCleanupNone == ticker' = ticker

\* The cleanup of the polling effect: clearInterval.
PollingCleanup == ticker' = FALSE

\* The view is unmounted: React runs the cleanup of every effect.  Requests
\* in flight are not cancelled.
Unmount ==
    /\ mounted
    /\ mounted' = FALSE
    /\ DebounceCleanup
    /\ PollingCleanup
    /\ UNCHANGED <<coreVars, items, flagVars, error, queryVars, intervalMinutes,
                   budget, coreReqs, lateFetches, itemReqs, pollReqs, runOp, schedOp,
                   histVars>>

\* ----------------------------------------------------------------- runScrape
\* A click on Run Scrape: the handler of the current render runs up to its
\* first await.  It holds the loadItems of that render.
RunScrape ==
    /\ ~RunDisabled
    /\ UserEvent
    /\ isRunning' = TRUE
    /\ runOp' = [phase |-> "posting", q |-> CurrentParams, wait |-> {}]
    /\ UNCHANGED <<coreVars, items, bootLoading, tableLoading, scheduleSaving, error,
                   queryVars, intervalMinutes, coreReqs, lateFetches, itemReqs, pollReqs, schedOp,
                   debounce, histVars>>

\* A runScrape that refreshes the core data only.
RunScrapeThenCoreOnly ==
    /\ coreReqs' = coreReqs \cup {CoreReq(coreSeq + 1, "run")}
    /\ coreSeq' = coreSeq + 1
    /\ runOp' = [runOp EXCEPT !.phase = "refreshing", !.wait = {"core"}]
    /\ UNCHANGED <<coreVars, items, isRunning, error, tableLoading, itemReqs, itemSeq>>

\* POST /scrape/run succeeded: loadCoreData() and loadItems() are called.
RunScrapeThen ==
    /\ coreReqs' = coreReqs \cup {CoreReq(coreSeq + 1, "run")}
    /\ coreSeq' = coreSeq + 1
    /\ LoadItemsStart(runOp.q, "run")
    /\ runOp' = [runOp EXCEPT !.phase = "refreshing", !.wait = {"core", "items"}]
    /\ UNCHANGED <<coreVars, items, isRunning, error>>

\* An empty catch block, like the one of the polling callback.
RunScrapeCatchSilent(message) ==
    /\ error' = error
    /\ isRunning' = FALSE
    /\ runOp' = IdleRun
    /\ UNCHANGED <<coreVars, items, tableLoading, coreReqs, itemReqs, itemSeq, coreSeq>>

\* POST /scrape/run failed: catch, then finally.
RunScrapeCatch(message) ==
    /\ error' = message
    /\ isRunning' = FALSE
    /\ runOp' = IdleRun
    /\ UNCHANGED <<coreVars, items, tableLoading, coreReqs, itemReqs, itemSeq, coreSeq>>

RunPostOk ==
    /\ runOp.phase = "posting"
    /\ RunScrapeThen
    /\ UNCHANGED <<bootLoading, scheduleSaving, queryVars, intervalMinutes, budget,
                   lateFetches, pollReqs, schedOp, debounce, itemFailed>>

RunPostFail(resp) ==
    /\ runOp.phase = "posting"
    /\ RunScrapeCatch(ApiFetchError(resp))
    /\ UNCHANGED <<bootLoading, scheduleSaving, queryVars, intervalMinutes, budget,
                   lateFetches, pollReqs, schedOp, debounce, itemFailed>>

\* ------------------------------------------------------------ updateSchedule
\* A body built from the stored schedule instead of the input.
ScheduleBodyStored == schedule.interval_minutes

\* The body of the POST: the interval input of the render that was clicked.
ScheduleBody == intervalMinutes

\* The Update Schedule button's disabled attribute.
ScheduleDisabled == scheduleSaving

UpdateSchedule ==
    /\ ~ScheduleDisabled
    /\ UserEvent
    /\ scheduleSaving' = TRUE
    /\ schedOp' = [phase |-> "posting", seq |-> coreSeq + 1, body |-> ScheduleBody]
    /\ coreSeq' = coreSeq + 1
    /\ UNCHANGED <<coreVars, items, bootLoading, tableLoading, isRunning, error,
                   queryVars, intervalMinutes, coreReqs, lateFetches, itemReqs, pollReqs, runOp,
                   debounce, itemSeq, itemFailed>>

\* An updateSchedule that leaves the schedule to the refresh that follows.
UpdateScheduleThenNoSet(updated) ==
    /\ schedule' = schedule
    /\ coreReqs' = coreReqs \cup {CoreReq(coreSeq + 1, "sched")}
    /\ coreSeq' = coreSeq + 1
    /\ schedOp' = [schedOp EXCEPT !.phase = "refreshing"]
    /\ UNCHANGED <<summary, trending, domains, status, history, intervalMinutes,
                   scheduleSaving, error>>

\* An updateSchedule that clears the error slot when its POST succeeds.
UpdateScheduleThenClear(updated) ==
    /\ schedule' = updated
    /\ coreReqs' = coreReqs \cup {CoreReq(coreSeq + 1, "sched")}
    /\ coreSeq' = coreSeq + 1
    /\ schedOp' = [schedOp EXCEPT !.phase = "refreshing"]
    /\ error' = Null
    /\ UNCHANGED <<summary, trending, domains, status, history, intervalMinutes,
                   scheduleSaving>>

\* POST /schedule succeeded with the schedule `updated`.
UpdateScheduleThen(updated) ==
    /\ schedule' = updated
    /\ coreReqs' = coreReqs \cup {CoreReq(coreSeq + 1, "sched")}
    /\ coreSeq' = coreSeq + 1
    /\ schedOp' = [schedOp EXCEPT !.phase = "refreshing"]
    /\ UNCHANGED <<summary, trending, domains, status, history, intervalMinutes,
                   scheduleSaving, error>>

\* A catch block after which the saving flag is not cleared.
UpdateScheduleCatchNoFinally(message) ==
    /\ error' = message
    /\ scheduleSaving' = scheduleSaving
    /\ schedOp' = IdleSched
    /\ UNCHANGED <<coreVars, intervalMinutes, coreSeq, coreReqs>>

\* POST /schedule failed: catch, then finally.
UpdateScheduleCatch(message) ==
    /\ error' = message
    /\ scheduleSaving' = FALSE
    /\ schedOp' = IdleSched
    /\ UNCHANGED <<coreVars, intervalMinutes, coreSeq, coreReqs>>

SchedulePostOk(minutes) ==
    /\ schedOp.phase = "posting"
    /\ UpdateScheduleThen([seq |-> schedOp.seq, interval_minutes |-> minutes])
    /\ UNCHANGED <<items, bootLoading, tableLoading, isRunning, queryVars, budget,
                   lateFetches, itemReqs, pollReqs, runOp, debounce, itemSeq, itemFailed>>

SchedulePostFail(resp) ==
    /\ schedOp.phase = "posting"
    /\ UpdateScheduleCatch(ApiFetchError(resp))
    /\ UNCHANGED <<items, bootLoading, tableLoading, isRunning, queryVars, budget,
                   lateFetches, itemReqs, pollReqs, runOp, debounce, itemSeq, itemFailed>>

\* ------------------------------------------------------------ specification
\* The step `action`, recorded under its name; it applies no function on its
\* own.
Step(action, name) ==
    /\ action
    /\ last' = name
    /\ edits' = (CASE name = "SetSearchInput" -> edits + 1
                   [] name = "DebounceFire" -> 0
                   [] OTHER -> edits)
    /\ pollFailures' = (IF name = "PollFail" THEN pollFailures + 1 ELSE pollFailures)
    /\ runFailed' = (CASE name = "RunScrape" -> FALSE
                       [] name = "CoreReject" ->
                             runFailed \/ \E r \in coreReqs \ coreReqs' : r.owner = "run"
                       [] name = "ItemsFail" ->
                             runFailed \/ \E r \in itemReqs \ itemReqs' : r.owner = "run"
                       [] OTHER -> runFailed)
    /\ intervalEdited' = (intervalEdited \/ name = "SetIntervalMinutes")
    /\ name # "Unmount" => UNCHANGED timerVars
    /\ UNCHANGED pureVars

Next ==
    \/ \E column \in SortClicks : Step(HandleSort(column), "HandleSort")
    \/ \E value \in SourceOptions : Step(SetSourceFilter(value), "SetSourceFilter")
    \/ \E value \in SearchTexts : Step(SetSearchInput(value), "SetSearchInput")
    \/ \E term \in debounce : Step(DebounceFire(term), "DebounceFire")
    \/ \E value \in IntervalInputs : Step(SetIntervalMinutes(value), "SetIntervalMinutes")
    \/ \E r \in itemReqs : Step(ItemsOk(r), "ItemsOk")
    \/ \E r \in itemReqs : \E resp \in FailedResponses : Step(ItemsFail(r, resp), "ItemsFail")
    \/ \E r \in coreReqs : \E running \in BOOLEAN : \E minutes \in ServerIntervals :
          Step(CoreResolve(r, running, minutes), "CoreResolve")
    \/ \E r \in coreReqs : \E resp \in FailedResponses : \E left \in 0 .. MaxStragglers :
          Step(CoreReject(r, resp, left), "CoreReject")
    \/ \E l \in lateFetches : \E resp \in LateResponses :
          Step(CoreFetchLate(l, resp), "CoreFetchLate")
    \/ Step(PollTick, "PollTick")
    \/ \E p \in pollReqs : \E running \in BOOLEAN : Step(PollOk(p, running), "PollOk")
    \/ \E p \in pollReqs : Step(PollFail(p), "PollFail")
    \/ Step(RunScrape, "RunScrape")
    \/ Step(RunPostOk, "RunPostOk")
    \/ \E resp \in FailedResponses : Step(RunPostFail(resp), "RunPostFail")
    \/ Step(UpdateSchedule, "UpdateSchedule")
    \/ \E minutes \in ServerIntervals : Step(SchedulePostOk(minutes), "SchedulePostOk")
    \/ \E resp \in FailedResponses : Step(SchedulePostFail(resp), "SchedulePostFail")

Spec == Init /\ [][Next]_vars

\* A request in flight settles: fetch fulfils or rejects its promise and the
\* continuation that awaits it runs.
Settle ==
    \/ \E r \in itemReqs : Step(ItemsOk(r), "ItemsOk")
    \/ \E r \in itemReqs : \E resp \in FailedResponses : Step(ItemsFail(r, resp), "ItemsFail")
    \/ \E r \in coreReqs : \E running \in BOOLEAN : \E minutes \in ServerIntervals :
          Step(CoreResolve(r, running, minutes), "CoreResolve")
    \/ \E r \in coreReqs : \E resp \in FailedResponses : \E left \in 0 .. MaxStragglers :
          Step(CoreReject(r, resp, left), "CoreReject")
    \/ \E l \in lateFetches : \E resp \in LateResponses :
          Step(CoreFetchLate(l, resp), "CoreFetchLate")
    \/ \E p \in pollReqs : \E running \in BOOLEAN : Step(PollOk(p, running), "PollOk")
    \/ \E p \in pollReqs : Step(PollFail(p), "PollFail")
    \/ Step(RunPostOk, "RunPostOk")
    \/ \E resp \in FailedResponses : Step(RunPostFail(resp), "RunPostFail")
    \/ \E minutes \in ServerIntervals : Step(SchedulePostOk(minutes), "SchedulePostOk")
    \/ \E resp \in FailedResponses : Step(SchedulePostFail(resp), "SchedulePostFail")

\* The controller when every request in flight settles in the end; the user
\* and the timers act finitely often.
SpecLive == Init /\ [][Next]_vars /\ WF_vars(Settle)

\* The query state on its own: edits of the search box, sort clicks and source
\* selections, the debounce timer and the item queries they cause.
InitQuery == Mounted(MaxQueryEvents, NoCall)

NextQuery ==
    \/ \E column \in SortClicks : Step(HandleSort(column), "HandleSort")
    \/ \E value \in SourceOptions : Step(SetSourceFilter(value), "SetSourceFilter")
    \/ \E value \in SearchTexts : Step(SetSearchInput(value), "SetSearchInput")
    \/ \E term \in debounce : Step(DebounceFire(term), "DebounceFire")
    \/ \E r \in itemReqs : Step(ItemsOk(r), "ItemsOk")
    \/ \E r \in itemReqs : \E resp \in FailedResponses : Step(ItemsFail(r, resp), "ItemsFail")

SpecQuery == InitQuery /\ [][NextQuery]_vars

\* The run trigger together with the query state: clicks on Run Scrape, sort
\* clicks and source selections, and the requests they cause.
InitRun == Mounted(MaxRunEvents, NoCall)

NextRun ==
    \/ \E column \in SortClicks : Step(HandleSort(column), "HandleSort")
    \/ \E value \in SourceOptions : Step(SetSourceFilter(value), "SetSourceFilter")
    \/ \E r \in itemReqs : Step(ItemsOk(r), "ItemsOk")
    \/ \E r \in itemReqs : \E resp \in FailedResponses : Step(ItemsFail(r, resp), "ItemsFail")
    \/ \E r \in coreReqs : \E running \in BOOLEAN : \E minutes \in ServerIntervals :
          Step(CoreResolve(r, running, minutes), "CoreResolve")
    \/ Step(RunScrape, "RunScrape")
    \/ Step(RunPostOk, "RunPostOk")
    \/ \E resp \in FailedResponses : Step(RunPostFail(resp), "RunPostFail")

SpecRun == InitRun /\ [][NextRun]_vars

\* The timers and the teardown: edits of the search box, the debounce timer,
\* polling and the unmount of the view, with the loads of the mount and of
\* the debounced search; no button, sort or source event.
InitTeardown == Mounted(MaxTimerEvents, NoCall)

NextTeardown ==
    \/ \E value \in SearchTexts : Step(SetSearchInput(value), "SetSearchInput")
    \/ \E term \in debounce : Step(DebounceFire(term), "DebounceFire")
    \/ Step(PollTick, "PollTick")
    \/ \E p \in pollReqs : \E running \in BOOLEAN : Step(PollOk(p, running), "PollOk")
    \/ \E p \in pollReqs : Step(PollFail(p), "PollFail")
    \/ \E r \in itemReqs : Step(ItemsOk(r), "ItemsOk")
    \/ \E r \in itemReqs : \E resp \in FailedResponses : Step(ItemsFail(r, resp), "ItemsFail")
    \/ \E r \in coreReqs : \E running \in BOOLEAN : \E minutes \in ServerIntervals :
          Step(CoreResolve(r, running, minutes), "CoreResolve")
    \/ \E r \in coreReqs : \E resp \in FailedResponses :
          Step(CoreReject(r, resp, 0), "CoreReject")
    \/ Step(Unmount, "Unmount")

SpecTeardown == InitTeardown /\ [][NextTeardown]_vars

\* ------------------------------------------------------------ uniqueDomains
\* Domain names, as sequences of the characters of host names.
DomainNames == {<<"a">>, <<"a", "-", "b">>, <<"a", ".", "b">>, <<"a", "1">>, <<"b">>}

\* The place of a character of a host name in the collation localeCompare
\* uses: punctuation, then digits, then letters.
CollationRank(c) ==
    CASE c = "-" -> 1
      [] c = "." -> 2
      [] c = "1" -> 3
      [] c = "a" -> 4
      [] c = "b" -> 5

\* a.localeCompare(b): negative, zero or positive.
RECURSIVE LocaleCompare(_, _)
LocaleCompare(a, b) ==
    IF a = << >> /\ b = << >> THEN 0
    ELSE IF a = << >> THEN -1
    ELSE IF b = << >> THEN 1
    ELSE IF CollationRank(Head(a)) < CollationRank(Head(b)) THEN -1
    ELSE IF CollationRank(Head(a)) > CollationRank(Head(b)) THEN 1
    ELSE LocaleCompare(Tail(a), Tail(b))

\* Set.prototype.add: a Set keeps its values in insertion order, each once.
SetAdd(values, v) ==
    IF \E i \in 1 .. Len(values) : values[i] = v THEN values ELSE Append(values, v)

\* list.forEach((x) => values.add(x)).
RECURSIVE AddEach(_, _)
AddEach(values, list) ==
    IF list = << >> THEN values ELSE AddEach(SetAdd(values, Head(list)), Tail(list))

\* One insertion of a stable sort: v goes behind the elements that do not
\* compare greater than it.
RECURSIVE SortInsert(_, _)
SortInsert(sorted, v) ==
    IF sorted = << >> THEN <<v>>
    ELSE IF LocaleCompare(Head(sorted), v) <= 0
         THEN <<Head(sorted)>> \o SortInsert(Tail(sorted), v)
         ELSE <<v>> \o sorted

\* Array.prototype.sort((a, b) => a.localeCompare(b)).
RECURSIVE ArraySort(_)
ArraySort(list) ==
    IF list = << >> THEN << >>
    ELSE SortInsert(ArraySort(SubSeq(list, 1, Len(list) - 1)), list[Len(list)])

\* The item page that has not been loaded.
NullPage == [loaded |-> FALSE]

\* A projection that reads the domain counts only.
UniqueDomainsNoItems(domainList, page) == ArraySort(AddEach(<< >>, domainList))

\* uniqueDomains for the domains of the domain counts, in their order, and
\* the item page, whose items are given by their source_domain.
UniqueDomains(domainList, page) ==
    ArraySort(AddEach(AddEach(<< >>, domainList),
                      IF page = NullPage THEN << >> ELSE page.items))

\* The lists of at most n entries.
ListsUpTo(n) == UNION {[1 .. k -> DomainNames] : k \in 0 .. n}

UniqueDomainsCalls ==
    {[fn |-> "uniqueDomains", domains |-> d, items |-> p] :
        d \in ListsUpTo(MaxListLen),
        p \in {NullPage} \cup {[loaded |-> TRUE, items |-> l] : l \in ListsUpTo(MaxListLen)}}

\* ----------------------------------------------------------------- apiFetch
ResponseStatuses == {200, 204, 404, 500}
\* Body texts: empty, blank, plain text and a JSON document.
ResponseTexts == {"", " ", "Not Found", "{}"}

\* Response.ok.
ResponseOk(resp) == resp.status >= 200 /\ resp.status <= 299

\* apiFetch once fetch has resolved with the response `resp`: what it throws
\* or returns.
ApiFetch(resp) ==
    IF ~ResponseOk(resp) THEN [kind |-> "throw", message |-> ApiFetchError(resp)]
    ELSE IF resp.status = 204 THEN [kind |-> "return", value |-> "undefined"]
    ELSE IF resp.text = "{}" THEN [kind |-> "return", value |-> <<"json", resp.text>>]
    ELSE [kind |-> "throw", message |-> <<"SyntaxError">>]

ApiFetchCalls ==
    {[fn |-> "apiFetch", resp |-> [status |-> st, text |-> t]] :
        st \in ResponseStatuses, t \in ResponseTexts}

\* ---------------------------------------------------- loadItems parameters
\* Debounced terms: those of the search box, and blank, trailing and inner
\* spaces.
ParamTerms == SearchTexts \cup {<<" ">>, <<"a", " ">>, <<"a", " ", "b">>, <<" ", "a", " ">>}

ItemParamsCalls ==
    {[fn |-> "loadItems", by |-> b, order |-> o, term |-> t, source |-> src] :
        b \in SortColumns, o \in SortOrders, t \in ParamTerms, src \in SourceOptions}

\* ------------------------------------------- functions applied on their own
PureCalls == UniqueDomainsCalls \cup ApiFetchCalls \cup ItemParamsCalls

InitPure == \E call \in PureCalls : Mounted(0, call)

ApplyUniqueDomains ==
    /\ fnIn.fn = "uniqueDomains" /\ fnOut = NoCall
    /\ fnOut' = [fn |-> "uniqueDomains", result |-> UniqueDomains(fnIn.domains, fnIn.items)]
    /\ UNCHANGED <<coreVars, items, flagVars, error, queryVars, intervalMinutes, loopVars,
                   histVars, last, edits, pollFailures, runFailed, intervalEdited,
                   timerVars, fnIn>>

ApplyApiFetch ==
    /\ fnIn.fn = "apiFetch" /\ fnOut = NoCall
    /\ fnOut' = [fn |-> "apiFetch", outcome |-> ApiFetch(fnIn.resp)]
    /\ UNCHANGED <<coreVars, items, flagVars, error, queryVars, intervalMinutes, loopVars,
                   histVars, last, edits, pollFailures, runFailed, intervalEdited,
                   timerVars, fnIn>>

\* loadItems up to its fetch: the parameters of the request.
ApplyItemParams ==
    /\ fnIn.fn = "loadItems" /\ fnOut = NoCall
    /\ fnOut' = [fn |-> "loadItems",
                 params |-> ItemParams(fnIn.by, fnIn.order, fnIn.term, fnIn.source)]
    /\ UNCHANGED <<coreVars, items, flagVars, error, queryVars, intervalMinutes, loopVars,
                   histVars, last, edits, pollFailures, runFailed, intervalEdited,
                   timerVars, fnIn>>

NextPure ==
    \/ ApplyUniqueDomains
    \/ ApplyApiFetch
    \/ ApplyItemParams

SpecPure == InitPure /\ [][NextPure]_vars

\* ------------------------------------------------------------------ claims
\* The item query whose response the page should show.
ItemsSettled == itemReqs = {} /\ ~itemFailed

\* C1: once no item request is in flight and all item queries have succeeded,
\* the item page is the response of the last query issued, and that query is
\* the one built from the query state on screen.
C1_LastQueryWins ==
    ItemsSettled => (items.seq = itemSeq /\ items.q = CurrentParams)

\* C2: the response to an item query that has been superseded by a later one
\* changes neither the item page, nor the error slot, nor table-pending.
C2_StaleResponseDropped ==
    [][\A r \in itemReqs :
          (r \notin itemReqs' /\ r.seq < itemSeq) =>
              UNCHANGED <<items, error, tableLoading>>]_vars

\* C3: table-pending is true exactly while the fetch of the most recently
\* issued item query is in flight.
C3_TablePendingIffNewestInFlight ==
    tableLoading <=> (Cardinality({r \in itemReqs : r.seq = itemSeq}) = 1)

\* C4: a bulk refresh of which a fetch fails changes none of the six core
\* pieces nor the interval input, and sets the error slot to a message; the
\* fetches of that refresh that settle afterwards change nothing either.
C4_BulkFailureAtomic ==
    [][/\ \A r \in coreReqs : \A resp \in FailedResponses : \A left \in 0 .. MaxStragglers :
             CoreReject(r, resp, left) =>
                 /\ UNCHANGED <<summary, trending, domains, status, history, schedule,
                                intervalMinutes>>
                 /\ error' # Null
       /\ \A l \in lateFetches : \A resp \in LateResponses :
             CoreFetchLate(l, resp) =>
                 UNCHANGED <<summary, trending, domains, status, history, schedule,
                             intervalMinutes, error>>]_vars

\* A later bulk refresh has just failed over the data of the first one.
C4_Witness ==
    /\ last = "CoreReject"
    /\ summary = 1 /\ status.seq = 1 /\ schedule.seq = 1
    /\ error # Null

\* C5: when the six fetches of a bulk refresh succeed, one step replaces the
\* six pieces by the fetched values, seeds the interval input from the fetched
\* schedule and clears the error slot; summary, trending, domains and history
\* never come from different refreshes.
C5_BulkSuccessAtomic ==
    [][/\ \A r \in coreReqs : \A running \in BOOLEAN : \A minutes \in ServerIntervals :
             CoreResolve(r, running, minutes) =>
                 /\ summary' = r.seq /\ trending' = r.seq
                 /\ domains' = r.seq /\ history' = r.seq
                 /\ status' = [seq |-> r.seq, is_running |-> running]
                 /\ schedule' = [seq |-> r.seq, interval_minutes |-> minutes]
                 /\ intervalMinutes' = minutes
                 /\ error' = Null
       /\ summary' = trending' /\ trending' = domains' /\ domains' = history']_vars

\* The first refresh has replaced everything, the interval input included.
C5_Witness ==
    /\ last = "CoreResolve"
    /\ summary = 1 /\ trending = 1 /\ domains = 1 /\ history = 1
    /\ status.seq = 1 /\ schedule.seq = 1
    /\ schedule.interval_minutes # DefaultInterval
    /\ intervalMinutes = schedule.interval_minutes

\* C6: the initial-load flag is true until a bulk refresh completes, is false
\* after every completion, successful or not, and never returns to true.
C6_BootLoadingOnce ==
    [][/\ ~bootLoading => ~bootLoading'
       /\ (\E r \in coreReqs : r \notin coreReqs') => ~bootLoading'
       /\ (bootLoading /\ ~bootLoading') => (\E r \in coreReqs : r \notin coreReqs')
       /\ bootLoading' => CoreReq(1, "mount") \in coreReqs']_vars

\* The first refresh to complete has failed, a later one has just been
\* issued, and the flag is false.
C6_Witness ==
    /\ last \in {"RunPostOk", "SchedulePostOk"}
    /\ ~bootLoading /\ summary = 0
    /\ \E r \in coreReqs : r.seq > 1

\* C7: a failed status poll changes no field of the controller.
C7_FailedPollChangesNothing ==
    [][\A p \in pollReqs :
          PollFail(p) =>
              UNCHANGED <<coreVars, items, flagVars, error, queryVars, intervalMinutes>>]_vars

\* A poll has just failed with a status on screen.
C7_Witness == last = "PollFail" /\ status.seq # 0 /\ pollReqs = {}

RunCoreIssued == {r \in coreReqs' \ coreReqs : r.owner = "run"}
RunItemsIssued == {r \in itemReqs' \ itemReqs : r.owner = "run"}

\* C9: runScrape issues its bulk refresh and its item query together, in the
\* step in which its trigger request succeeds and in no other; when the
\* trigger fails it sets the error slot, issues nothing and leaves the six
\* core pieces and the item page alone.
C9_RunTriggerRefresh ==
    [][/\ (RunCoreIssued # {} \/ RunItemsIssued # {}) => RunPostOk
       /\ RunPostOk => (Cardinality(RunCoreIssued) = 1 /\ Cardinality(RunItemsIssued) = 1)
       /\ \A resp \in FailedResponses :
             RunPostFail(resp) =>
                 /\ error' = ApiFetchError(resp)
                 /\ coreReqs' = coreReqs /\ itemReqs' = itemReqs /\ pollReqs' = pollReqs
                 /\ UNCHANGED <<coreVars, items>>]_vars

\* Both refreshes of runScrape are in flight.
C9_Witness ==
    /\ last = "RunPostOk"
    /\ runOp.phase = "refreshing" /\ runOp.wait = {"core", "items"}
    /\ \E r \in coreReqs : r.owner = "run"
    /\ \E r \in itemReqs : r.owner = "run"

\* C10: the POST of updateSchedule carries the interval input of the click;
\* when it succeeds the schedule becomes the response and exactly one bulk
\* refresh is issued.
C10_ScheduleUpdateSuccess ==
    [][/\ (schedOp.phase = "idle" /\ schedOp'.phase = "posting") =>
             schedOp'.body = intervalMinutes
       /\ (schedOp.phase = "posting" /\ schedOp'.phase # "idle") =>
             schedOp'.body = schedOp.body
       /\ \A minutes \in ServerIntervals :
             SchedulePostOk(minutes) =>
                 /\ schedule' = [seq |-> schedOp.seq, interval_minutes |-> minutes]
                 /\ coreReqs' \ coreReqs = {CoreReq(coreSeq + 1, "sched")}
                 /\ coreReqs \subseteq coreReqs']_vars

\* The POST carried an edited interval, succeeded, and its refresh is in
\* flight over the schedule it returned.
C10_Witness ==
    /\ last = "SchedulePostOk"
    /\ schedOp.phase = "refreshing"
    /\ schedOp.body # schedule.interval_minutes
    /\ schedule.seq = schedOp.seq
    /\ \E r \in coreReqs : r.owner = "sched"

\* C11: when the POST of updateSchedule fails, the error slot becomes the
\* failure's message, the schedule and the interval input keep their values,
\* no bulk refresh is issued and schedule-saving returns to false.
C11_ScheduleUpdateFailure ==
    [][\A resp \in FailedResponses :
          SchedulePostFail(resp) =>
              /\ scheduleSaving /\ ~scheduleSaving'
              /\ error' = ApiFetchError(resp)
              /\ UNCHANGED <<schedule, intervalMinutes>>
              /\ coreReqs' = coreReqs /\ coreSeq' = coreSeq]_vars

\* The POST has just failed over a fetched schedule.
C11_Witness ==
    /\ last = "SchedulePostFail"
    /\ schedule.seq = 1 /\ intervalMinutes = schedule.interval_minutes
    /\ error # Null /\ ~scheduleSaving

\* The raw input as a search parameter.
RawTerm(raw) == IF raw = << >> THEN {} ELSE {raw}

\* C12 as stated: an edit of the search box issues no item query, and the
\* timer that fires after a burst of edits issues exactly one, whose search
\* term is the last raw value.
C12_DebounceBurst ==
    [][/\ \A value \in SearchTexts : SetSearchInput(value) => itemReqs' = itemReqs
       /\ \A term \in debounce :
             (DebounceFire(term) /\ edits >= 1) =>
                 \E r \in itemReqs' \ itemReqs :
                     /\ itemReqs' = itemReqs \cup {r}
                     /\ r.q.search = RawTerm(searchInput)]_vars

\* C12 amended: an edit of the search box issues no item query; the timer
\* that fires after a burst of edits holds the last raw value and makes it the
\* debounced term; it issues exactly one item query, built from the trimmed
\* value, when that value differs from the debounced term, and none when it
\* does not; an edit made while no timer is pending always differs.
C12_DebounceBurstTrimmed ==
    [][/\ \A value \in SearchTexts :
             SetSearchInput(value) =>
                 /\ itemReqs' = itemReqs
                 /\ debounce = {} => search' # searchInput'
       /\ \A term \in debounce :
             (DebounceFire(term) /\ edits >= 1) =>
                 /\ term = searchInput /\ search' = searchInput
                 /\ IF search # searchInput
                    THEN itemReqs' \ itemReqs =
                             {ItemReq(itemSeq + 1,
                                      ItemParams(sortBy, sortOrder, searchInput, sourceFilter),
                                      "effect")}
                    ELSE itemReqs' = itemReqs
                 /\ itemReqs \subseteq itemReqs']_vars

\* A burst of two edits has ended and its timer has issued the only query
\* since mount, for the last value.
C12_Witness ==
    /\ last = "DebounceFire"
    /\ budget = MaxQueryEvents - 2 /\ itemSeq = 2
    /\ searchInput = <<"a">> /\ search = <<"a">>
    /\ \E r \in itemReqs : r.seq = 2 /\ r.q.search = {<<"a">>}

\* C13: at most one debounce timer is pending, it holds the raw input on
\* screen, every edit of the search box leaves exactly the timer it set, and
\* the timer that fires makes the raw input of that moment the debounced term.
C13_DebounceRestart ==
    /\ Cardinality(debounce) <= 1
    /\ debounce \subseteq {searchInput}
    /\ (edits >= 1 /\ last = "SetSearchInput") => debounce = {searchInput}
    /\ (last = "DebounceFire") => (search = searchInput /\ debounce = {})

\* An edit has replaced the timer of an earlier edit.
C13_Witness ==
    /\ last = "SetSearchInput" /\ edits = 2
    /\ searchInput = <<"a">> /\ search = << >>
    /\ debounce = {<<"a">>}

\* C14: handleSort on the active column keeps the column and flips the
\* order; on another column it makes that column active with order desc,
\* whatever the order was; the raw input, the debounced term and the source
\* filter are left alone.
C14_SortToggle ==
    [][\A column \in SortClicks :
          HandleSort(column) =>
              /\ IF sortBy = column
                 THEN /\ sortBy' = sortBy
                      /\ sortOrder = "desc" => sortOrder' = "asc"
                      /\ sortOrder = "asc" => sortOrder' = "desc"
                 ELSE /\ sortBy' = column
                      /\ sortOrder' = "desc"
              /\ UNCHANGED <<searchInput, search, sourceFilter>>]_vars

\* Another column has just been clicked while the order was asc.
C14_Witness ==
    /\ last = "HandleSort"
    /\ sortBy = "points" /\ sortOrder = "desc"
    /\ \E r \in itemReqs :
          r.seq = itemSeq - 1 /\ r.q.sort_by = "timestamp" /\ r.q.sort_order = "asc"

\* The four fields of the query state an item query is built from.
QueryKey == <<search, sourceFilter, sortBy, sortOrder>>

\* C15: a step that changes the debounced term, the source filter, the sort
\* column or the sort order issues exactly one item query, built from the
\* query state it leaves; a step that changes none of them issues no item
\* query for the query state.
C15_QueryPerChange ==
    [][IF QueryKey' # QueryKey
       THEN /\ itemReqs' \ itemReqs =
                   {ItemReq(itemSeq + 1,
                            ItemParams(sortBy', sortOrder', search', sourceFilter'),
                            "effect")}
            /\ itemReqs \subseteq itemReqs'
       ELSE {r \in itemReqs' \ itemReqs : r.owner = "effect"} = {}]_vars

\* A click that changed both the column and the order has issued one query,
\* the third since mount, and an edit of the search box has issued none.
C15_Witness ==
    /\ last = "SetSearchInput"
    /\ sortBy = "points" /\ sortOrder = "desc" /\ itemSeq = 3
    /\ \E r \in itemReqs :
          r.seq = 2 /\ r.q.sort_by = "timestamp" /\ r.q.sort_order = "asc"
    /\ \E r \in itemReqs :
          r.seq = 3 /\ r.q.sort_by = "points" /\ r.q.sort_order = "desc"

\* C16: an item query that fails sets the error slot to the failure's
\* message, changes neither the item page nor the six core pieces, and clears
\* table-pending; an item query that succeeds clears table-pending too.
C16_ItemQueryFailure ==
    [][/\ \A r \in itemReqs : \A resp \in FailedResponses :
             ItemsFail(r, resp) =>
                 /\ error' = ApiFetchError(resp)
                 /\ UNCHANGED <<items, coreVars>>
                 /\ ~tableLoading'
       /\ \A r \in itemReqs : ItemsOk(r) => ~tableLoading']_vars

\* An item query has just failed over the page of another one.
C16_Witness ==
    /\ last = "ItemsFail"
    /\ items.seq # 0 /\ itemFailed
    /\ error # Null /\ ~tableLoading

\* The elements of a list.
Range(list) == {list[i] : i \in 1 .. Len(list)}

\* The code unit of a character of a host name.
CodeUnit(c) ==
    CASE c = "-" -> 45
      [] c = "." -> 46
      [] c = "1" -> 49
      [] c = "a" -> 97
      [] c = "b" -> 98

\* a comes strictly before b in lexicographic order.
RECURSIVE LexLess(_, _)
LexLess(a, b) ==
    IF b = << >> THEN FALSE
    ELSE IF a = << >> THEN TRUE
    ELSE IF CodeUnit(Head(a)) # CodeUnit(Head(b)) THEN CodeUnit(Head(a)) < CodeUnit(Head(b))
    ELSE LexLess(Tail(a), Tail(b))

\* The domain names uniqueDomains was given.
GivenDomains ==
    Range(fnIn.domains) \cup (IF fnIn.items = NullPage THEN {} ELSE Range(fnIn.items.items))

\* C17: the projected list holds exactly the domain names of the domain
\* counts and of the items of the page, each once, in ascending
\* lexicographic order.
C17_DomainProjection ==
    fnOut.fn = "uniqueDomains" =>
        /\ Range(fnOut.result) = GivenDomains
        /\ Len(fnOut.result) = Cardinality(GivenDomains)
        /\ \A i \in 1 .. Len(fnOut.result) - 1 :
              LexLess(fnOut.result[i], fnOut.result[i + 1])

\* Unsorted domain counts and a page that repeats one of their domains and
\* brings a new one have been projected.
C17_Witness ==
    /\ fnOut.fn = "uniqueDomains"
    /\ fnIn.domains = << <<"b">>, <<"a", "1">> >>
    /\ fnIn.items = [loaded |-> TRUE, items |-> << <<"b">>, <<"a", ".", "b">> >>]
    /\ fnOut.result = << <<"a", ".", "b">>, <<"a", "1">>, <<"b">> >>

\* C20: for a response whose status is not a success, apiFetch throws and
\* returns no value; the message is the body text when that is not empty and
\* otherwise the generic message with the status.
C20_ApiFetchFailure ==
    (fnOut.fn = "apiFetch" /\ ~ResponseOk(fnIn.resp)) =>
        /\ fnOut.outcome.kind = "throw"
        /\ fnIn.resp.text # "" => fnOut.outcome.message = <<fnIn.resp.text>>
        /\ fnIn.resp.text = "" =>
              fnOut.outcome.message = <<"Request failed: ", fnIn.resp.status>>

\* A 404 with a body has been turned into an Error with that body.
C20_Witness ==
    /\ fnOut.fn = "apiFetch"
    /\ fnIn.resp = [status |-> 404, text |-> "Not Found"]
    /\ fnOut.outcome = [kind |-> "throw", message |-> <<"Not Found">>]

\* C18 as stated: every step in which a bulk refresh, an item query or a
\* status poll succeeds (a run trigger and a schedule update succeed with
\* their refreshes) leaves the error slot null.
C18_AnySuccessClearsError ==
    [][last' \in {"CoreResolve", "ItemsOk", "PollOk"} => error' = Null]_vars

\* C18 amended: a bulk refresh or an item query that succeeds, on its own or
\* as the refresh of a run trigger or of a schedule update, leaves the error
\* slot null; a status poll that succeeds, and the success of the POST of a
\* run trigger or of a schedule update, leave the error slot as it was.
C18_RefreshSuccessClearsError ==
    [][/\ last' \in {"CoreResolve", "ItemsOk"} => error' = Null
       /\ last' \in {"PollOk", "RunPostOk", "SchedulePostOk"} => error' = error]_vars

\* The mount's bulk refresh has failed, and an item query that succeeded
\* after it has just cleared the error slot.
C18_Witness ==
    /\ last = "ItemsOk"
    /\ ~bootLoading /\ summary = 0 /\ coreReqs = {}
    /\ error = Null /\ items.seq # 0

\* C19: every failing request is caught where it is awaited: the failure of
\* a bulk refresh, an item query, a trigger POST or a schedule POST becomes
\* the error slot, a poll failure is dropped, the caller of a failed refresh
\* goes on as after a success, and the flags of runScrape and updateSchedule
\* are up exactly while these are pending.
C19_FailuresCaught ==
    [][/\ \A r \in coreReqs : \A resp \in FailedResponses : \A left \in 0 .. MaxStragglers :
             CoreReject(r, resp, left) =>
                 /\ error' = ApiFetchError(resp)
                 /\ r \notin coreReqs'
                 /\ (r.owner = "run" /\ runOp.wait # {"core"}) =>
                       runOp' = [runOp EXCEPT !.wait = @ \ {"core"}]
                 /\ (r.owner = "run" /\ runOp.wait = {"core"}) => runOp' = IdleRun
                 /\ r.owner = "sched" => schedOp' = IdleSched
       /\ \A r \in itemReqs : \A resp \in FailedResponses :
             ItemsFail(r, resp) =>
                 /\ error' = ApiFetchError(resp)
                 /\ r \notin itemReqs'
                 /\ (r.owner = "run" /\ runOp.wait # {"items"}) =>
                       runOp' = [runOp EXCEPT !.wait = @ \ {"items"}]
                 /\ (r.owner = "run" /\ runOp.wait = {"items"}) => runOp' = IdleRun
       /\ \A resp \in FailedResponses :
             /\ RunPostFail(resp) => (error' = ApiFetchError(resp) /\ runOp' = IdleRun)
             /\ SchedulePostFail(resp) =>
                   (error' = ApiFetchError(resp) /\ schedOp' = IdleSched)
       /\ \A p \in pollReqs : PollFail(p) => (error' = error /\ p \notin pollReqs')
       /\ isRunning' <=> runOp'.phase # "idle"
       /\ scheduleSaving' <=> schedOp'.phase # "idle"]_vars

\* The bulk refresh of runScrape has just failed while its item query is
\* still awaited: runScrape goes on waiting.
C19_Witness ==
    /\ last = "CoreReject"
    /\ runOp.phase = "refreshing" /\ runOp.wait = {"items"}
    /\ isRunning /\ error # Null

\* C21: apiFetch succeeds and returns the undefined result for every success
\* status whose response has no body.
C21_EmptyBodySucceeds ==
    (fnOut # NoCall /\ fnOut.fn = "apiFetch"
        /\ ResponseOk(fnIn.resp) /\ fnIn.resp.text = "") =>
        fnOut.outcome = [kind |-> "return", value |-> "undefined"]

\* C22: teardown clears both timers; once the view is unmounted no debounce
\* timer and no polling tick fires, so no status poll is issued and the
\* debounced search term does not change.
C22_Teardown ==
    [][/\ ~mounted' => (debounce' = {} /\ ~ticker')
       /\ ~mounted =>
             /\ last' \notin {"DebounceFire", "PollTick"}
             /\ pollReqs' \subseteq pollReqs
             /\ coreSeq' = coreSeq
             /\ search' = search]_vars

\* The view was unmounted with an edit of the search box not yet debounced
\* and a status poll in flight, and with polling ticks still to come; the
\* poll has been answered since.
C22_Witness ==
    /\ ~mounted /\ last = "PollOk"
    /\ searchInput = <<"a">> /\ search = << >>
    /\ budget >= 1

\* The positions of the characters of s that are not spaces.
Inked(s) == {i \in 1 .. Len(s) : s[i] # " "}

\* s from its first to its last character that is not a space.
Stripped(s) ==
    IF Inked(s) = {} THEN << >>
    ELSE SubSeq(s, CHOOSE i \in Inked(s) : \A j \in Inked(s) : i <= j,
                   CHOOSE i \in Inked(s) : \A j \in Inked(s) : i >= j)

\* C23: the item query request is a function of the query state: the sort
\* column, the sort order, limit 40 and offset 0 always; the search parameter
\* is the trimmed debounced term exactly when that is not empty; the source
\* parameter is the source filter exactly when it is not "all".
C23_ItemQueryParams ==
    (fnOut # NoCall /\ fnOut.fn = "loadItems") =>
        /\ fnOut.params.sort_by = fnIn.by
        /\ fnOut.params.sort_order = fnIn.order
        /\ fnOut.params.limit = 40
        /\ fnOut.params.offset = 0
        /\ fnOut.params.search =
              (IF Stripped(fnIn.term) = << >> THEN {} ELSE {Stripped(fnIn.term)})
        /\ fnOut.params.source = (IF fnIn.source = "all" THEN {} ELSE {fnIn.source})

\* A term with spaces around it and a source other than the sentinel: both
\* optional parameters are sent.
C23_Witness ==
    /\ fnOut # NoCall /\ fnOut.fn = "loadItems"
    /\ fnIn.term = <<" ", "a", " ">> /\ fnIn.source = "a.com"
    /\ fnOut.params.search = {<<"a">>} /\ fnOut.params.source = {"a.com"}

\* C24: when two bulk refreshes overlap and both succeed, the six core pieces
\* and the interval input end up holding the results of the refresh issued
\* later, whatever the order of arrival: a refresh that succeeds after a
\* refresh issued later has been applied changes none of them.
C24_LaterRefreshWins ==
    [][\A r \in coreReqs : \A running \in BOOLEAN : \A minutes \in ServerIntervals :
          (CoreResolve(r, running, minutes) /\ r.seq < summary) =>
              UNCHANGED <<coreVars, intervalMinutes>>]_vars

\* C25: the item query runScrape issues after a successful trigger is built
\* from the query state current when the query is issued, also when the sort,
\* the source or the search changed while the trigger was in flight.
C25_RunQueryCurrent ==
    [][RunPostOk =>
          \E r \in itemReqs' \ itemReqs : r.owner = "run" /\ r.q = CurrentParams]_vars

\* C26: a bulk refresh completes only after all six of its fetches have
\* settled: a refresh with a fetch still in flight has not completed.
C26_CompletesAfterAllSettle ==
    \A l \in lateFetches : \E r \in coreReqs : r.seq = l.seq

\* C26, amended: a bulk refresh whose six fetches all succeed completes only
\* after all six have settled; a refresh with a failing fetch completes at
\* the first failure, while others of its fetches may still be in flight,
\* and what those return changes nothing.
C26_CompletesAtLastSuccessOrFirstFailure ==
    [][/\ \A r \in coreReqs : \A running \in BOOLEAN : \A minutes \in ServerIntervals :
             CoreResolve(r, running, minutes) =>
                 /\ r \notin coreReqs' /\ ~bootLoading'
                 /\ \A l \in lateFetches' : l.seq # r.seq
       /\ \A r \in coreReqs : \A resp \in FailedResponses : \A left \in 0 .. MaxStragglers :
             CoreReject(r, resp, left) =>
                 /\ r \notin coreReqs' /\ ~bootLoading'
                 /\ left > 0 => [seq |-> r.seq, left |-> left] \in lateFetches'
       /\ \A l \in lateFetches : \A resp \in LateResponses :
             CoreFetchLate(l, resp) =>
                 UNCHANGED <<coreVars, flagVars, error, intervalMinutes, coreReqs>>]_vars

\* The bulk refresh of the mount has just completed by a failure while
\* another of its fetches is still in flight.
C26_Witness ==
    /\ last = "CoreReject"
    /\ coreSeq = 1 /\ coreReqs = {}
    /\ \E l \in lateFetches : l.seq = 1
    /\ ~bootLoading /\ error # Null /\ summary = 0

\* C27: when several fetches of one bulk refresh fail, that refresh sets the
\* error slot exactly once, to the message of the failure first in time; the
\* failures of the same refresh that come later do not change the error slot.
C27_FirstFailureOnly ==
    [][/\ \A r \in coreReqs : \A resp \in FailedResponses : \A left \in 0 .. MaxStragglers :
             CoreReject(r, resp, left) =>
                 /\ error' = ApiFetchError(resp)
                 /\ \A q \in coreReqs' : q.seq # r.seq
                 /\ \A l \in lateFetches : l.seq # r.seq
       /\ \A l \in lateFetches : \A resp \in FailedResponses :
             CoreFetchLate(l, resp) =>
                 /\ error' = error
                 /\ \A q \in coreReqs : q.seq # l.seq]_vars

\* Another fetch of the mount's refresh has just settled, by a failure or a
\* success, after the fetch that rejected it; nothing else has failed, and
\* the error slot holds the message of the rejection.
C27_Witness ==
    /\ last = "CoreFetchLate"
    /\ coreSeq = 1 /\ itemSeq = 1 /\ ~itemFailed
    /\ error # Null
    /\ summary = 0

\* C28: the error slot goes from a message to null only in a step that is the
\* successful completion of a bulk refresh or of an item query; and every
\* failure of a bulk refresh, an item query, a trigger POST or a schedule POST
\* overwrites the message the slot held.
C28_ErrorSlotTransitions ==
    [][/\ (error # Null /\ error' = Null) =>
             \/ \E r \in coreReqs : \E running \in BOOLEAN : \E minutes \in ServerIntervals :
                   CoreResolve(r, running, minutes)
             \/ \E r \in itemReqs : ItemsOk(r)
       /\ \A resp \in FailedResponses :
             ((\E r \in coreReqs : \E left \in 0 .. MaxStragglers : CoreReject(r, resp, left))
                 \/ (\E r \in itemReqs : ItemsFail(r, resp))
                 \/ RunPostFail(resp)
                 \/ SchedulePostFail(resp)) =>
                 error' = ApiFetchError(resp)]_vars

\* The item query of the mount failed, no event followed, and the bulk
\* refresh of the mount has just succeeded and cleared the message.
C28_Witness ==
    /\ last = "CoreResolve"
    /\ itemFailed /\ itemSeq = 1 /\ coreSeq = 1 /\ budget = MaxEvents
    /\ error = Null

\* C29: when every issued request settles in the end and the user stops
\* acting, the controller reaches a state from which bootLoading,
\* tableLoading, isRunning and scheduleSaving are all false for good.
C29_FlagsSettle ==
    <>[](~bootLoading /\ ~tableLoading /\ ~isRunning /\ ~scheduleSaving)

\* Every event has been used, requests have overlapped and an item query has
\* failed; nothing is in flight any more and the four flags are false.
C29_Witness ==
    /\ budget = 0 /\ itemFailed /\ itemSeq >= 2
    /\ coreReqs = {} /\ lateFetches = {} /\ itemReqs = {} /\ pollReqs = {}
    /\ runOp = IdleRun /\ schedOp = IdleSched
    /\ ~bootLoading /\ ~tableLoading /\ ~isRunning /\ ~scheduleSaving

\* C30: a successful status poll replaces the run status and changes no other
\* field; and polling stays enabled in every state of a mounted view,
\* whatever the loading flags and the error slot are and however many
\* earlier polls have failed.
C30_PollingIndependent ==
    /\ [][\A p \in pollReqs : \A running \in BOOLEAN :
             PollOk(p, running) =>
                 /\ status' = [seq |-> p, is_running |-> running]
                 /\ UNCHANGED <<summary, trending, domains, schedule, history, items,
                                flagVars, error, queryVars, intervalMinutes>>]_vars
    /\ []((mounted /\ budget >= 1) => ENABLED Step(PollTick, "PollTick"))

\* A poll has just succeeded on a mounted view after an earlier poll failed,
\* with an error on screen and the table pending; ticks are still to come.
C30_Witness ==
    /\ last = "PollOk" /\ mounted
    /\ pollFailures >= 1
    /\ error # Null /\ tableLoading
    /\ budget >= 1

\* C31: the run status is never replaced by the response of a status fetch
\* that was issued earlier than the status fetch whose response it holds,
\* whether the fetch was a poll or one of the six of a bulk refresh.
C31_StatusNeverGoesBack ==
    [][status'.seq >= status.seq]_vars

\* Nothing but runScrape is at work.
OthersIdle ==
    /\ \A r \in coreReqs : r.owner = "run"
    /\ \A r \in itemReqs : r.owner = "run"
    /\ lateFetches = {} /\ pollReqs = {} /\ schedOp = IdleSched

\* The step in which the second of the two refreshes of runScrape completes.
RunRefreshEnds == runOp.phase = "refreshing" /\ runOp' = IdleRun

\* C32: when the trigger succeeded and no other operation is in flight, at
\* the moment run-triggering returns to false the error slot is null only if
\* both the bulk refresh and the item query of runScrape succeeded.
C32_RunFailureKept ==
    [][(RunRefreshEnds /\ OthersIdle /\ ~isRunning' /\ error' = Null) => ~runFailed']_vars

\* C32, amended: at the moment run-triggering returns to false after a
\* successful trigger, the error slot is null exactly when the one of the two
\* refreshes of runScrape that completed last succeeded; it then holds no
\* trace of a failure of the other.
C32_LastRefreshDecides ==
    [][RunRefreshEnds =>
          /\ isRunning /\ ~isRunning'
          /\ error' = Null <=>
                \/ \E r \in coreReqs : \E running \in BOOLEAN : \E minutes \in ServerIntervals :
                      r.owner = "run" /\ CoreResolve(r, running, minutes)
                \/ \E r \in itemReqs : r.owner = "run" /\ ItemsOk(r)]_vars

\* runScrape has just ended with nothing else at work: its bulk refresh
\* failed, its item query succeeded after that, and the error slot is null.
C32_Witness ==
    /\ last = "ItemsOk" /\ runFailed
    /\ runOp = IdleRun /\ ~isRunning
    /\ coreReqs = {} /\ itemReqs = {} /\ lateFetches = {} /\ pollReqs = {}
    /\ budget = 0 /\ itemSeq = 2 /\ ~itemFailed
    /\ error = Null

\* runScrape has a request in flight: its POST, or a refresh it started.
RunBusy ==
    \/ runOp.phase = "posting"
    \/ \E r \in coreReqs : r.owner = "run"
    \/ \E r \in itemReqs : r.owner = "run"

\* updateSchedule has a request in flight: its POST, or the refresh it started.
SchedBusy ==
    \/ schedOp.phase = "posting"
    \/ \E r \in coreReqs : r.owner = "sched"

\* C33: run-triggering is true from the start of runScrape until the trigger
\* has settled and, after a success, until both the bulk refresh and the item
\* query of runScrape have completed; schedule-saving is true until the POST
\* has settled and, after a success, the bulk refresh has completed.
C33_FlagsHeld ==
    /\ isRunning <=> RunBusy
    /\ scheduleSaving <=> SchedBusy

\* The item query of runScrape has just completed while its bulk refresh is
\* still in flight: run-triggering is still true.
C33_Witness ==
    /\ last \in {"ItemsOk", "ItemsFail"}
    /\ runOp.phase = "refreshing" /\ runOp.wait = {"core"}
    /\ \A r \in itemReqs : r.owner # "run"
    /\ isRunning

\* C34: when the POST /schedule of a schedule update succeeds, the schedule
\* becomes the value the POST returned; when the bulk refresh that follows
\* fails, the schedule, the interval input and the other five core pieces
\* are left as they are, the error slot holds the failure of the refresh,
\* and schedule-saving is false.
C34_ScheduleKeptOnRefreshFailure ==
    [][/\ \A minutes \in ServerIntervals :
             SchedulePostOk(minutes) =>
                 /\ schedule' = [seq |-> schedOp.seq, interval_minutes |-> minutes]
                 /\ scheduleSaving'
       /\ \A r \in coreReqs : \A resp \in FailedResponses : \A left \in 0 .. MaxStragglers :
             (r.owner = "sched" /\ CoreReject(r, resp, left)) =>
                 /\ UNCHANGED <<coreVars, intervalMinutes>>
                 /\ error' = ApiFetchError(resp)
                 /\ ~scheduleSaving']_vars

\* The refresh of a schedule update has just failed, and the schedule on
\* screen is the one its POST returned, with an interval other than the
\* one in the input.
C34_Witness ==
    /\ last = "CoreReject"
    /\ schedOp = IdleSched /\ ~scheduleSaving
    /\ coreSeq = 3 /\ schedule.seq = 2
    /\ \A r \in coreReqs : r.owner # "sched"
    /\ schedule.interval_minutes # intervalMinutes
    /\ error # Null

\* C35: the interval input changes only by a user edit or by a successful
\* bulk refresh; a poll, an item query, a run trigger response and the
\* POST /schedule response never change it; and a bulk refresh that succeeds
\* replaces the value with the fetched interval, also when it was issued
\* before a user edit that it overwrites.
C35_IntervalInputWriters ==
    [][/\ intervalMinutes' # intervalMinutes =>
             \/ \E value \in IntervalInputs : SetIntervalMinutes(value)
             \/ \E r \in coreReqs : \E running \in BOOLEAN : \E minutes \in ServerIntervals :
                   CoreResolve(r, running, minutes)
       /\ \A r \in coreReqs : \A running \in BOOLEAN : \A minutes \in ServerIntervals :
             CoreResolve(r, running, minutes) => intervalMinutes' = minutes]_vars

\* The user edited the interval input while the bulk refresh of the mount
\* was in flight; the refresh has just succeeded and put the fetched interval
\* in the place of the edit.
C35_Witness ==
    /\ last = "CoreResolve"
    /\ intervalEdited /\ coreSeq = 1
    /\ intervalMinutes = DefaultInterval /\ schedule.interval_minutes = DefaultInterval

\* C36: the completion of an item query, by success or failure, changes none
\* of summary, trending, domains, status, history, schedule, the interval
\* input and the initial-load flag; the completion of a bulk refresh changes
\* none of the item page, the query state and table-pending.
C36_IndependentTimelines ==
    [][/\ \A r \in itemReqs :
             (ItemsOk(r) \/ \E resp \in FailedResponses : ItemsFail(r, resp)) =>
                 UNCHANGED <<summary, trending, domains, status, history, schedule,
                             intervalMinutes, bootLoading>>
       /\ \A r \in coreReqs :
             ((\E running \in BOOLEAN : \E minutes \in ServerIntervals :
                    CoreResolve(r, running, minutes))
                 \/ (\E resp \in FailedResponses : \E left \in 0 .. MaxStragglers :
                        CoreReject(r, resp, left))) =>
                 UNCHANGED <<items, queryVars, tableLoading>>]_vars

\* An item query has just succeeded while the first bulk refresh is still in
\* flight: the page is shown, the dashboard is empty and the initial-load
\* flag is still true.
C36_Witness ==
    /\ last = "ItemsOk"
    /\ items.seq # 0 /\ ~tableLoading
    /\ bootLoading /\ summary = 0 /\ status = NullStatus
    /\ \E r \in coreReqs : r.owner = "mount"

\* C37: on mount exactly one bulk refresh and exactly one item query, for
\* the default query state, are issued, with the initial-load flag and
\* table-pending both true, and none is added before the first user input;
\* a debounce timer that fires with a raw input equal to the debounced term,
\* the first firing after mount included, issues no item query.
C37_MountLoadsOnce ==
    /\ [](last = "mount" =>
             /\ coreReqs = {[seq |-> 1, owner |-> "mount"]}
             /\ \E r \in itemReqs :
                   /\ itemReqs = {r}
                   /\ r.q = [sort_by |-> "timestamp", sort_order |-> "desc", limit |-> 40,
                             offset |-> 0, search |-> {}, source |-> {}]
             /\ bootLoading /\ tableLoading)
    /\ [](budget = MaxQueryEvents => (itemSeq = 1 /\ coreSeq = 1))
    /\ [][\A term \in debounce :
             (DebounceFire(term) /\ term = search) =>
                 UNCHANGED <<itemReqs, itemSeq, tableLoading, search>>]_vars

\* The timer set at mount has just fired, before any user input, and no
\* second item query has been issued.
C37_Witness ==
    /\ last = "DebounceFire"
    /\ budget = MaxQueryEvents /\ debounce = {}
    /\ itemSeq = 1 /\ search = << >>

====
